---- MODULE Spec2Model ----
(***************************************************************************)
(* State-machine model of mcp-bearer-token/mcp_starter.py: the in-memory   *)
(* event store, the RSVP operations and the reminder background task.      *)
(*                                                                         *)
(* Time is counted in minutes.        Strings that the code inspects       *)
(* (phone numbers, RSVP responses) are sequences of one-character strings; *)
(* datetime strings are short token sequences (see dateparse).             *)
(***************************************************************************)
EXTENDS Integers, Sequences, FiniteSets, TLC

VARIABLES
    events,          \* module global `events`: event id -> event record
    reminders_sent,  \* module global `reminders_sent`: set of <<event id, phone>>
    twilio_client,   \* module global `_twilio_client`: TRUE iff credentials were set
    clock,           \* datetime.now(), in minutes
    started,         \* main() has run: reminder_background_task exists
    wakeAt,          \* the minute at which the task's asyncio.sleep(300) ends
    nextId,          \* source of fresh uuid4 values
    result,          \* what the last step returned or raised ("none": no tool call)
    reply,           \* the data in what a query returned (NoReply: none)
    outbox,          \* the send_whatsapp_message calls made by the last step
    reminder_calls   \* per <<event id, phone>>: reminder sends made so far

vars == <<events, reminders_sent, twilio_client, clock, started, wakeAt,
          nextId, result, reply, outbox, reminder_calls>>

----------------------------------------------------------------------------
(* Bounds of the model *)

MaxSteps == 2
MaxEvents == 2
MaxLen == 2
MaxCalls == 2

(* Program constants *)

WindowStartMinutes == 55
WindowEndMinutes == 65
SleepSeconds == 300
SleepMinutes == SleepSeconds \div 60

----------------------------------------------------------------------------
(* Strings *)

Whitespace == {" ", "\t", "\n"}

LowerLetters == <<"a","b","c","d","e","f","g","h","i","j","k","l","m",
                  "n","o","p","q","r","s","t","u","v","w","x","y","z">>
UpperLetters == <<"A","B","C","D","E","F","G","H","I","J","K","L","M",
                  "N","O","P","Q","R","S","T","U","V","W","X","Y","Z">>

RECURSIVE lstrip(_)
lstrip(s) == IF s # <<>> /\ Head(s) \in Whitespace THEN lstrip(Tail(s)) ELSE s

RECURSIVE rstrip(_)
rstrip(s) ==
    IF s # <<>> /\ s[Len(s)] \in Whitespace
    THEN rstrip(SubSeq(s, 1, Len(s) - 1))
    ELSE s

\* str.strip()
strip(s) == rstrip(lstrip(s))

\* str.startswith(prefix)
startswith(s, prefix) ==
    Len(s) >= Len(prefix) /\ SubSeq(s, 1, Len(prefix)) = prefix

\* the upper-case letter of each lower-case letter
UpperOf ==
    [c \in {LowerLetters[i] : i \in 1..26} |->
        UpperLetters[CHOOSE i \in 1..26 : LowerLetters[i] = c]]

upperChar(c) == IF c \in DOMAIN UpperOf THEN UpperOf[c] ELSE c

\* str.upper()
upper(s) == [i \in 1..Len(s) |-> upperChar(s[i])]

WhatsappPrefix == <<"w","h","a","t","s","a","p","p",":">>
PlusPrefix == <<"+">>

\* mutant: the prefixes are looked for before the whitespace is stripped
normalize_phone_StripLast(phone) ==
    IF startswith(phone, WhatsappPrefix) THEN strip(phone)
    ELSE IF startswith(phone, PlusPrefix) THEN WhatsappPrefix \o strip(phone)
    ELSE strip(phone)

\* normalize_phone(phone)
normalize_phone(phone) ==
    LET p == strip(phone) IN
    IF startswith(p, WhatsappPrefix) THEN p
    ELSE IF startswith(p, PlusPrefix) THEN WhatsappPrefix \o p
    ELSE p

YES == <<"Y","E","S">>
NO == <<"N","O">>
MAYBE == <<"M","A","Y","B","E">>
ValidResponses == {YES, NO, MAYBE}

----------------------------------------------------------------------------
(* Datetimes.  A datetime string is a record: [date, sep, tz] when it      *)
(* spells a date (date: the minute it names; sep: " " for                  *)
(* 'YYYY-MM-DD HH:MM', "T" for ISO; tz: "" or a UTC offset), and [text]    *)
(* when it spells none.  A datetime value is [t, tzinfo].                  *)

Parsable(s) == "date" \in DOMAIN s

ParserError == [error |-> "ParserError"]

\* mutant: a lenient parse that answers a default date for any text
dateparse_Fuzzy(s) ==
    IF "date" \in DOMAIN s
    THEN [t |-> s.date, tzinfo |-> s.tz # ""]
    ELSE [t |-> 0, tzinfo |-> FALSE]

\* dateutil.parser.parse(s): a datetime, or ParserError raised
dateparse(s) ==
    IF "date" \in DOMAIN s
    THEN [t |-> s.date, tzinfo |-> s.tz # ""]
    ELSE ParserError

\* datetime.isoformat()
isoformat(dt) ==
    [date |-> dt.t, sep |-> "T", tz |-> IF dt.tzinfo THEN "+00:00" ELSE ""]

\* datetime.now(): a naive local datetime
now == [t |-> clock, tzinfo |-> FALSE]

\* datetime + timedelta(minutes=m)
plusMinutes(dt, m) == [dt EXCEPT !.t = dt.t + m]

\* a <= b on datetimes raises TypeError when exactly one of them is aware
Comparable(a, b) == a.tzinfo = b.tzinfo

----------------------------------------------------------------------------
(* dict, as a function on its keys.  Python iterates a dict in insertion   *)
(* order; the model iterates in one fixed order per key set.               *)

EmptyDict == [k \in {} |-> 0]

\* d[k] = v
dictSet(d, k, v) == [x \in DOMAIN d \cup {k} |-> IF x = k THEN v ELSE d[x]]

----------------------------------------------------------------------------
(* Inputs *)

Plus1 == <<"+", "1">>
Plus1Padded == <<" ", "+", "1", " ">>
Whatsapp1 == WhatsappPrefix \o Plus1
Plus2 == <<"+", "2">>
Creator == <<"+", "9">>

BadDatetime == [text |-> "next friday-ish"]
LocalDatetime(t) == [date |-> t, sep |-> " ", tz |-> ""]
UtcDatetime(t) == [date |-> t, sep |-> "T", tz |-> "Z"]

\* start times: one whose window [start-65, start-55] is open at minute 0 and
\* closes after minute 5, one whose window opens at minute 5
NearStart == WindowStartMinutes + SleepMinutes
LaterStart == WindowEndMinutes + SleepMinutes
\* a start time that has passed after one sleep of the task
SoonStart == SleepMinutes

NearParty ==
    [title |-> "Party", datetime_str |-> LocalDatetime(NearStart),
     attendees |-> <<Plus1, Plus2>>]
LaterParty ==
    [title |-> "Party", datetime_str |-> LocalDatetime(LaterStart),
     attendees |-> <<Plus1, Plus1>>]
Untitled ==
    [title |-> "", datetime_str |-> LocalDatetime(SoonStart),
     attendees |-> <<Plus1, Plus1>>]
UtcParty ==
    [title |-> "Party", datetime_str |-> UtcDatetime(NearStart),
     attendees |-> <<>>]
BadParty ==
    [title |-> "Party", datetime_str |-> BadDatetime,
     attendees |-> <<Plus1>>]

YesPadded == [phone |-> Plus1Padded, response |-> <<"y","e","s">>]
NoWhatsapp == [phone |-> Whatsapp1, response |-> <<" ","N","o","\n">>]
MaybePlain == [phone |-> Plus1, response |-> <<"M","a","y","b","e">>]
YepPlain == [phone |-> Plus1, response |-> <<"Y","E","P">>]
YesSecond == [phone |-> Plus2, response |-> YES]

\* every call the model makes
CreateInputs == {NearParty, LaterParty, Untitled, UtcParty, BadParty}
RsvpInputs == {YesPadded, NoWhatsapp, MaybePlain, YepPlain, YesSecond}

\* the calls of the scheduling scenario: two start times, one contact who
\* accepts and declines
WindowCreateInputs == {NearParty, LaterParty}
WindowRsvpInputs == {YesPadded, NoWhatsapp}

\* the calls of the guest scenario: one kind of event, a contact who
\* hesitates and a second contact who accepts
GuestCreateInputs == {NearParty}
GuestRsvpInputs == {MaybePlain, YesSecond}

\* the calls of the pair scenario: one kind of event, two contacts who accept
PairCreateInputs == {NearParty}
PairRsvpInputs == {YesPadded, YesSecond}

\* the calls of the RSVP scenario: one kind of event, one contact under every
\* spelling of the number and of the response
RsvpCreateInputs == {NearParty}
RsvpRsvpInputs == {YesPadded, NoWhatsapp, MaybePlain, YepPlain}

\* the calls of the query scenario: one kind of event, two contacts and every
\* response
QueryCreateInputs == {NearParty}
QueryRsvpInputs == {YesPadded, NoWhatsapp, MaybePlain, YesSecond}

\* the calls of the ledger scenario: two start times, one contact who
\* accepts
LedgerCreateInputs == {NearParty, LaterParty}
LedgerRsvpInputs == {YesPadded}

\* the calls of the creation scenario: every kind of create_event call, one
\* contact who accepts
StoreCreateInputs == {NearParty, Untitled, UtcParty, BadParty}
StoreRsvpInputs == {YesPadded}

\* event ids a caller may name; one that is not minted yet, or was dropped
\* by load_events, is unknown to the store
EventIds == 1..MaxEvents

\* the pairs a reminder can be about
ReminderPairs ==
    {<<id, normalize_phone(in.phone)>> : id \in EventIds, in \in RsvpInputs}

----------------------------------------------------------------------------
(* Notifier *)

\* what one send can report, given the Twilio configuration
Outcomes == IF twilio_client THEN {"sent", "error"} ELSE {"simulated"}

\* send_whatsapp_message(to, body), reporting status st
send_whatsapp_message(to, body, st) ==
    [to |-> normalize_phone(to), body |-> body, status |-> st]

----------------------------------------------------------------------------
(* Initial state: the module has been imported *)

NoEvents == EmptyDict
NoReply == [kind |-> "none"]

Init ==
    /\ events = NoEvents
    /\ reminders_sent = {}
    /\ twilio_client \in BOOLEAN
    /\ clock = 0
    /\ started = FALSE
    /\ wakeAt = 0
    /\ nextId = 1
    /\ result = "none"
    /\ reply = NoReply
    /\ outbox = <<>>
    /\ reminder_calls = [p \in ReminderPairs |-> 0]

\* mutant: the store is replaced by the one event
save_event_Replace(event_id, event) == [id \in {event_id} |-> event]

\* save_event(event_id, event)
save_event(event_id, event) ==
    [id \in DOMAIN events \cup {event_id} |->
        IF id = event_id THEN event ELSE events[id]]

\* load_events()
load_events == NoEvents

----------------------------------------------------------------------------
(* main(): reset the store and start the reminder task, whose first        *)
(* iteration is due at once                                                *)

Main ==
    /\ ~started
    /\ events' = load_events
    /\ started' = TRUE
    /\ wakeAt' = clock
    /\ result' = "none"
    /\ reply' = NoReply
    /\ outbox' = <<>>
    /\ UNCHANGED <<reminders_sent, twilio_client, clock, nextId, reminder_calls>>

----------------------------------------------------------------------------
(* create_event *)

\* the event record built from the arguments (lines 188-197)
newEvent(event_id, in, dt) ==
    [id |-> event_id,
     title |-> in.title,
     datetime |-> isoformat(dt),
     location |-> "",
     description |-> "",
     creator |-> normalize_phone(Creator),
     attendees |-> [i \in 1..Len(in.attendees) |-> normalize_phone(in.attendees[i])],
     rsvps |-> EmptyDict]

\* mutant: the invite loop stops at the first send that fails
sendInvites_StopOnError(event, st) ==
    LET failed == {i \in 1..Len(event.attendees) : st[i] = "error"}
        last == IF failed = {} THEN Len(event.attendees)
                ELSE CHOOSE i \in failed : \A j \in failed : i <= j
    IN [i \in 1..last |->
           send_whatsapp_message(event.attendees[i],
                                 [kind |-> "invite", event |-> event.id], st[i])]

\* the invite loop (lines 200-211): one send per element of the list
sendInvites(event, st) ==
    [i \in 1..Len(event.attendees) |->
        send_whatsapp_message(event.attendees[i],
                              [kind |-> "invite", event |-> event.id], st[i])]

\* calls are made while the model has an event id left to mint
CreateEvent(in, st) ==
    /\ nextId <= MaxEvents
    /\ LET dt == dateparse(in.datetime_str) IN
       IF dt = ParserError
       THEN /\ result' = "McpError 400 Invalid datetime format"
            /\ reply' = NoReply
            /\ outbox' = <<>>
            /\ UNCHANGED <<events, reminders_sent, twilio_client, clock, started,
                           wakeAt, nextId, reminder_calls>>
       ELSE /\ LET event == newEvent(nextId, in, dt) IN
                 /\ events' = save_event(nextId, event)
                 /\ outbox' = sendInvites(event, st)
            /\ nextId' = nextId + 1
            /\ result' = "created"
            /\ reply' = NoReply
            /\ UNCHANGED <<reminders_sent, twilio_client, clock, started, wakeAt,
                           reminder_calls>>

----------------------------------------------------------------------------
(* record_rsvp *)

\* mutant: the event is looked up before the response is validated
rsvpError_LookupFirst(event_id, response_up) ==
    IF event_id \notin DOMAIN events
    THEN "McpError 404 Event not found"
    ELSE IF response_up \notin ValidResponses
    THEN "McpError 400 Invalid RSVP response"
    ELSE "none"

\* the raise, if any, of lines 234-238
rsvpError(event_id, response_up) ==
    IF response_up \notin ValidResponses
    THEN "McpError 400 Invalid RSVP response"
    ELSE IF event_id \notin DOMAIN events
    THEN "McpError 404 Event not found"
    ELSE "none"

\* mutant: the RSVP is stored under the phone as given
rsvpKey_Raw(phone) == phone

\* the key the RSVP is stored under (line 239)
rsvpKey(phone) == normalize_phone(phone)

\* mutant: the response is stored as given
rsvpRecord_Raw(response, response_up) == [response |-> response]

\* the record stored (line 240), without its "time" string, which only
\* rsvp_list prints
rsvpRecord(response, response_up) == [response |-> response_up]

RecordRsvp(event_id, phone, response) ==
    LET response_up == upper(strip(response))
        error == rsvpError(event_id, response_up)
    IN
    IF error # "none"
    THEN /\ result' = error
         /\ reply' = NoReply
         /\ outbox' = <<>>
         /\ UNCHANGED <<events, reminders_sent, twilio_client, clock, started,
                        wakeAt, nextId, reminder_calls>>
    ELSE LET ev == events[event_id]
             normalized_phone == rsvpKey(phone)
             ev2 == [ev EXCEPT !.rsvps =
                        dictSet(ev.rsvps, normalized_phone,
                                rsvpRecord(response, response_up))]
         IN /\ result' = "recorded"
            /\ reply' = NoReply
            /\ events' = save_event(event_id, ev2)
            /\ \E st \in Outcomes :
                 outbox' = << send_whatsapp_message(ev2.creator,
                                [kind |-> "rsvp", event |-> event_id], st) >>
            /\ UNCHANGED <<reminders_sent, twilio_client, clock, started,
                           wakeAt, nextId, reminder_calls>>

----------------------------------------------------------------------------
(* list_events *)

\* "Upcoming" if dt > now else "Past" (line 223)
statusOf(dt) == IF dt.t > now.t THEN "Upcoming" ELSE "Past"

\* the loop of lines 221-224 over the events with the ids given, in
\* insertion order; lines is the list built so far.  Comparing an aware
\* datetime with the naive now raises TypeError, which nothing catches.
RECURSIVE listLines(_, _)
listLines(ids, lines) ==
    IF ids = {} THEN [raised |-> FALSE, lines |-> lines]
    ELSE LET id == CHOOSE x \in ids : \A y \in ids : x <= y
             dt == dateparse(events[id].datetime)
         IN IF ~Comparable(dt, now)
            THEN [raised |-> TRUE, lines |-> lines]
            ELSE listLines(ids \ {id},
                    Append(lines, [id |-> id, status |-> statusOf(dt)]))

ListEvents ==
    /\ IF DOMAIN events = {}
       THEN /\ result' = "No events found."
            /\ reply' = NoReply
       ELSE LET listing == listLines(DOMAIN events, <<>>) IN
            IF listing.raised
            THEN /\ result' = "TypeError"
                 /\ reply' = NoReply
            ELSE /\ result' = "listed"
                 /\ reply' = [kind |-> "listed", lines |-> listing.lines]
    /\ outbox' = <<>>
    /\ UNCHANGED <<events, reminders_sent, twilio_client, clock, started, wakeAt,
                   nextId, reminder_calls>>

----------------------------------------------------------------------------
(* event_details and rsvp_list *)

\* mutant: a missing event is an error, as in record_rsvp
notFound_Raises(event_id) == "McpError 404 Event not found"

\* f"Event {event_id} not found." (lines 254 and 281)
notFound(event_id) == "not found"

\* mutant: only the YES answers are counted
tally_YesOnly(rsvp_counts, resp) ==
    IF resp = YES
    THEN [rsvp_counts EXCEPT ![resp] = @ + 1]
    ELSE rsvp_counts

\* lines 260-262: one response added to the counts
tally(rsvp_counts, resp) ==
    IF resp \in DOMAIN rsvp_counts
    THEN [rsvp_counts EXCEPT ![resp] = @ + 1]
    ELSE rsvp_counts

\* the loop of lines 259-262 over the RSVPs keyed by phones
RECURSIVE countRsvps(_, _, _)
countRsvps(rsvps, phones, rsvp_counts) ==
    IF phones = {} THEN rsvp_counts
    ELSE LET phone == CHOOSE k \in phones : TRUE
         IN countRsvps(rsvps, phones \ {phone},
                       tally(rsvp_counts, upper(rsvps[phone].response)))

EventDetails(event_id) ==
    /\ IF event_id \notin DOMAIN events
       THEN /\ result' = notFound(event_id)
            /\ reply' = NoReply
       ELSE LET rsvps == events[event_id].rsvps IN
            /\ result' = "details"
            /\ reply' = [kind |-> "details", event |-> event_id,
                         counts |-> countRsvps(rsvps, DOMAIN rsvps,
                                               [r \in ValidResponses |-> 0])]
    /\ outbox' = <<>>
    /\ UNCHANGED <<events, reminders_sent, twilio_client, clock, started, wakeAt,
                   nextId, reminder_calls>>

\* the loop of lines 288-291 over the RSVPs keyed by phones
RECURSIVE rsvpLines(_, _, _)
rsvpLines(rsvps, phones, lines) ==
    IF phones = {} THEN lines
    ELSE LET phone == CHOOSE k \in phones : TRUE
         IN rsvpLines(rsvps, phones \ {phone},
                      Append(lines, [phone |-> phone,
                                     resp |-> rsvps[phone].response]))

RsvpList(event_id) ==
    /\ IF event_id \notin DOMAIN events
       THEN /\ result' = notFound(event_id)
            /\ reply' = NoReply
       ELSE LET rsvps == events[event_id].rsvps IN
            IF DOMAIN rsvps = {}
            THEN /\ result' = "No RSVPs yet."
                 /\ reply' = NoReply
            ELSE /\ result' = "RSVP List"
                 /\ reply' = [kind |-> "RSVP List", event |-> event_id,
                              lines |-> rsvpLines(rsvps, DOMAIN rsvps, <<>>)]
    /\ outbox' = <<>>
    /\ UNCHANGED <<events, reminders_sent, twilio_client, clock, started, wakeAt,
                   nextId, reminder_calls>>

----------------------------------------------------------------------------
(* reminder_background_task: one iteration of its `while True` loop.  The  *)
(* loop body has no await, so an iteration is one step.                    *)

\* mutant: the upper end of the window is not checked
InWindow_NoUpperBound(event_dt) ==
    plusMinutes(now, WindowStartMinutes).t <= event_dt.t

\* check_window_start <= event_dt <= check_window_end (line 149)
InWindow(event_dt) ==
    /\ plusMinutes(now, WindowStartMinutes).t <= event_dt.t
    /\ event_dt.t <= plusMinutes(now, WindowEndMinutes).t

\* mutant: every guest with an RSVP is reminded
wantsReminder_Any(rsvp_info) == TRUE

\* rsvp_info.get("response", "").upper() == "YES" (line 152)
wantsReminder(rsvp_info) == upper(rsvp_info.response) = YES

\* mutant: the ledger is not consulted
alreadyReminded_Never(pair, ledger) == FALSE

\* (event_id, normalized_phone) not in reminders_sent, negated (line 154)
alreadyReminded(pair, ledger) == pair \in ledger

\* mutant: the ledger keeps only the last pair
markReminded_OnlyLast(ledger, pair, sendResult) == {pair}

\* mutant: the pair is added only when the send did not fail
markReminded_OnSuccess(ledger, pair, sendResult) ==
    IF sendResult.status = "error" THEN ledger ELSE ledger \cup {pair}

\* lines 159-160: what send_whatsapp_message returned is dropped, and the
\* pair is added
markReminded(ledger, pair, sendResult) == ledger \cup {pair}

\* mutant: a send that fails ends the guest loop of the event
guestsAfter_ErrorEndsLoop(phones, phone, sendResult) ==
    IF sendResult.status = "error" THEN {} ELSE phones \ {phone}

\* the guests the loop of line 151 still visits after the send to phone:
\* send_whatsapp_message returns a status and does not raise (lines 125-137),
\* so all the others
guestsAfter(phones, phone, sendResult) == phones \ {phone}

\* the guest loop of one event (lines 151-161) over the RSVPs keyed by
\* phones; acc is [ledger, sent]: reminders_sent and the sends made so far
RECURSIVE remindGuests(_, _, _, _)
remindGuests(ev, phones, acc, st) ==
    IF phones = {} THEN acc
    ELSE LET phone == CHOOSE k \in phones : TRUE
             rsvp_info == ev.rsvps[phone]
             normalized_phone == normalize_phone(phone)
             pair == <<ev.id, normalized_phone>>
             sendResult == send_whatsapp_message(normalized_phone,
                               [kind |-> "reminder", event |-> ev.id], st[pair])
         IN IF wantsReminder(rsvp_info) /\ ~alreadyReminded(pair, acc.ledger)
            THEN remindGuests(ev, guestsAfter(phones, phone, sendResult),
                    [ledger |-> markReminded(acc.ledger, pair, sendResult),
                     sent |-> Append(acc.sent, sendResult)],
                    st)
            ELSE remindGuests(ev, phones \ {phone}, acc, st)

\* the try block of event ev ends in its except clause: the comparison of
\* line 149 raises TypeError
faulted(ev) ==
    ~Comparable(plusMinutes(now, WindowStartMinutes), dateparse(ev.datetime))

\* the try block for one event (lines 147-163)
remindEvent(ev, acc, st) ==
    LET event_dt == dateparse(ev.datetime) IN
    IF faulted(ev)
    THEN acc        \* TypeError, caught and logged at line 162
    ELSE IF InWindow(event_dt) THEN remindGuests(ev, DOMAIN ev.rsvps, acc, st)
    ELSE acc

\* mutant: the fault of one event ends the for loop
eventsAfter_FaultEndsLoop(ids, id) ==
    IF faulted(events[id]) THEN {} ELSE ids \ {id}

\* the events the for loop of line 146 still visits after event id: the try
\* of lines 147-163 is inside the loop body, so all the others
eventsAfter(ids, id) == ids \ {id}

\* for event_id, ev in events.items() (line 146): ids are minted in
\* increasing order, so insertion order is id order
RECURSIVE remindEvents(_, _, _)
remindEvents(ids, acc, st) ==
    IF ids = {} THEN acc
    ELSE LET id == CHOOSE x \in ids : \A y \in ids : x <= y
         IN remindEvents(eventsAfter(ids, id),
                         remindEvent(events[id], acc, st), st)

\* how many of the sends in box are reminders for pair
remindersFor(box, pair) ==
    Cardinality({i \in 1..Len(box) :
        /\ box[i].body.kind = "reminder"
        /\ <<box[i].body.event, box[i].to>> = pair})

\* the pairs the iteration due now sends a reminder for, whatever the sends
\* report
duePairs ==
    LET dry == remindEvents(DOMAIN events,
                            [ledger |-> reminders_sent, sent |-> <<>>],
                            [p \in ReminderPairs |-> "sent"]).sent
    IN {<<dry[i].body.event, dry[i].to>> : i \in 1..Len(dry)}

\* what an iteration sends and records, and its sleep
TickSends ==
    /\ started
    /\ clock = wakeAt
    /\ \E st \in [duePairs -> Outcomes] :
         LET r == remindEvents(DOMAIN events,
                               [ledger |-> reminders_sent, sent |-> <<>>], st)
         IN /\ reminders_sent' = r.ledger
            /\ outbox' = r.sent
            /\ reminder_calls' =
                 [p \in ReminderPairs |-> reminder_calls[p] + remindersFor(r.sent, p)]
    /\ wakeAt' = clock + SleepMinutes
    /\ result' = "none"
    /\ reply' = NoReply

\* mutant: an iteration empties the store it has scanned
Tick_ClearsStore ==
    /\ TickSends
    /\ events' = load_events
    /\ UNCHANGED <<twilio_client, clock, started, nextId>>

Tick ==
    /\ TickSends
    /\ UNCHANGED <<events, twilio_client, clock, started, nextId>>

\* time passes, in steps of the task's sleep interval: main() has run at
\* startup, and an iteration of the task that is due runs before the clock
\* moves on
AdvanceClock ==
    /\ clock < MaxSteps * SleepMinutes
    /\ started
    /\ clock < wakeAt
    /\ clock' = clock + SleepMinutes
    /\ result' = "none"
    /\ reply' = NoReply
    /\ outbox' = <<>>
    /\ UNCHANGED <<events, reminders_sent, twilio_client, started, wakeAt, nextId,
                   reminder_calls>>

----------------------------------------------------------------------------

DoCreateEvent(inputs) ==
    \E in \in inputs :
        \E st \in [1..Len(in.attendees) -> Outcomes] : CreateEvent(in, st)

DoRecordRsvp(inputs) ==
    \E event_id \in EventIds, in \in inputs :
        RecordRsvp(event_id, in.phone, in.response)

DoEventDetails == \E event_id \in EventIds : EventDetails(event_id)

DoRsvpList == \E event_id \in EventIds : RsvpList(event_id)

\* every handler with every call, and the reminder task
Next ==
    \/ Main
    \/ DoCreateEvent(CreateInputs)
    \/ ListEvents
    \/ DoRecordRsvp(RsvpInputs)
    \/ DoEventDetails
    \/ DoRsvpList
    \/ Tick
    \/ AdvanceClock

NextWindow ==
    \/ Main
    \/ DoCreateEvent(WindowCreateInputs)
    \/ DoRecordRsvp(WindowRsvpInputs)
    \/ Tick
    \/ AdvanceClock

NextGuest ==
    \/ Main
    \/ DoCreateEvent(GuestCreateInputs)
    \/ DoRecordRsvp(GuestRsvpInputs)
    \/ Tick
    \/ AdvanceClock

NextPair ==
    \/ Main
    \/ DoCreateEvent(PairCreateInputs)
    \/ DoRecordRsvp(PairRsvpInputs)
    \/ Tick
    \/ AdvanceClock

NextRsvp ==
    \/ Main
    \/ DoCreateEvent(RsvpCreateInputs)
    \/ DoRecordRsvp(RsvpRsvpInputs)
    \/ Tick
    \/ AdvanceClock

NextLedger ==
    \/ Main
    \/ DoCreateEvent(LedgerCreateInputs)
    \/ ListEvents
    \/ DoRecordRsvp(LedgerRsvpInputs)
    \/ DoEventDetails
    \/ DoRsvpList
    \/ Tick
    \/ AdvanceClock

\* the handlers as the __main__ block serves them: main() is not called and
\* the reminder task does not exist
NextQuery ==
    \/ DoCreateEvent(QueryCreateInputs)
    \/ DoRecordRsvp(QueryRsvpInputs)
    \/ DoEventDetails
    \/ DoRsvpList

NextStore ==
    \/ Main
    \/ DoCreateEvent(StoreCreateInputs)
    \/ ListEvents
    \/ DoRecordRsvp(StoreRsvpInputs)
    \/ Tick
    \/ AdvanceClock

----------------------------------------------------------------------------
(* normalize_phone on its own: a phone string is drawn, and the function is *)
(* applied to what it returned last                                         *)

PhoneChars == {" ", "+", "1", "w"}

RECURSIVE StringsUpTo(_)
StringsUpTo(n) ==
    IF n = 0 THEN {<<>>}
    ELSE LET shorter == StringsUpTo(n - 1)
         IN shorter \cup {Append(x, c) : x \in shorter, c \in PhoneChars}

\* up to MaxLen characters, the prefix or nothing, up to MaxLen characters
PhoneInputs ==
    {a \o mid \o b : a \in StringsUpTo(MaxLen), mid \in {<<>>, WhatsappPrefix},
                     b \in StringsUpTo(MaxLen)}

InitNormalize ==
    /\ events = NoEvents
    /\ reminders_sent = {}
    /\ twilio_client = FALSE
    /\ clock = 0
    /\ started = FALSE
    /\ wakeAt = 0
    /\ nextId = 1
    /\ result = "none"
    /\ reply \in {[kind |-> "phone", phone |-> x, value |-> x, calls |-> 0] :
                    x \in PhoneInputs}
    /\ outbox = <<>>
    /\ reminder_calls = [p \in ReminderPairs |-> 0]

NormalizePhone ==
    /\ reply.kind = "phone"
    /\ reply.calls < MaxCalls
    /\ reply' = [reply EXCEPT !.value = normalize_phone(@), !.calls = @ + 1]
    /\ UNCHANGED <<events, reminders_sent, twilio_client, clock, started, wakeAt,
                   nextId, result, outbox, reminder_calls>>

NextNormalize == NormalizePhone

Spec == Init /\ [][Next]_vars
SpecWindow == Init /\ [][NextWindow]_vars
SpecGuest == Init /\ [][NextGuest]_vars
SpecPair == Init /\ [][NextPair]_vars
SpecRsvp == Init /\ [][NextRsvp]_vars
SpecLedger == Init /\ [][NextLedger]_vars
SpecQuery == Init /\ [][NextQuery]_vars
SpecStore == Init /\ [][NextStore]_vars
SpecNormalize == InitNormalize /\ [][NextNormalize]_vars

----------------------------------------------------------------------------
(* Properties *)

\* the minute a stored event's datetime string names
StartOf(e) == events[e].datetime.date

\* the event's start lies in [clock + 55, clock + 65]
StartsInWindow(e) ==
    /\ clock + 55 <= StartOf(e)
    /\ StartOf(e) <= clock + 65

IsReminder(m) == m.body.kind = "reminder"

\* an iteration of the reminder task has just run at minute t
JustTicked(t) ==
    /\ started
    /\ clock = t
    /\ wakeAt = t + 5
    /\ result = "none"

Canonical == {YES, NO, MAYBE}

\* each input response after trimming and upper-casing, and each input phone
\* in canonical form
Trimmed == [r \in {in.response : in \in RsvpInputs} |-> upper(strip(r))]
CanonicalOf == [p \in {in.phone : in \in RsvpInputs} |-> normalize_phone(p)]

\* C1: over any run, the notifier is called for a reminder at most once per
\* (event id, canonical contact) pair, and a step that starts with the pair
\* in the ledger makes no reminder call for it.
C1_AtMostOnceReminder ==
    [][ /\ \A p \in ReminderPairs : reminder_calls'[p] <= 1
        /\ \A p \in reminders_sent : reminder_calls'[p] = reminder_calls[p]
      ]_vars

\* a second iteration inside the window of an event whose YES guest was
\* reminded before has run and sent nothing
C1_Witness ==
    /\ JustTicked(5)
    /\ outbox = <<>>
    /\ \E e \in DOMAIN events : \E c \in DOMAIN events[e].rsvps :
         /\ events[e].datetime.tz = ""
         /\ StartsInWindow(e)
         /\ events[e].rsvps[c].response = YES
         /\ <<e, c>> \in reminders_sent
         /\ reminder_calls[<<e, c>>] = 1

\* C2: every reminder an iteration at time now sends is for an event whose
\* start satisfies now + 55min <= start <= now + 65min.
C2_ReminderWindow ==
    \A i \in 1..Len(outbox) :
        IsReminder(outbox[i]) =>
            /\ outbox[i].body.event \in DOMAIN events
            /\ StartsInWindow(outbox[i].body.event)

\* an iteration has reminded a guest of one event and not the YES guest of
\* another event that starts after the window
C2_Witness ==
    /\ \E i \in 1..Len(outbox) : IsReminder(outbox[i])
    /\ \E b \in DOMAIN events : \E c \in DOMAIN events[b].rsvps :
         /\ events[b].datetime.tz = ""
         /\ StartOf(b) > clock + 65
         /\ events[b].rsvps[c].response = YES
         /\ <<b, c>> \notin reminders_sent

\* C3: a reminder is sent, and a ledger entry made, only for a contact whose
\* RSVP stored for that event when the iteration runs is YES.
C3_OnlyYesReminded ==
    [][ /\ \A i \in 1..Len(outbox') :
             IsReminder(outbox'[i]) =>
                LET e == outbox'[i].body.event
                    c == outbox'[i].to
                IN /\ e \in DOMAIN events
                   /\ c \in DOMAIN events[e].rsvps
                   /\ events[e].rsvps[c].response = YES
        /\ \A p \in reminders_sent' \ reminders_sent :
             /\ p[1] \in DOMAIN events
             /\ p[2] \in DOMAIN events[p[1]].rsvps
             /\ events[p[1]].rsvps[p[2]].response = YES
      ]_vars

\* an iteration has reminded the YES guest of an event in its window and
\* left out the guest of the same event who answered NO or MAYBE
C3_Witness ==
    \E i \in 1..Len(outbox) :
        /\ IsReminder(outbox[i])
        /\ \E c \in DOMAIN events[outbox[i].body.event].rsvps :
             /\ events[outbox[i].body.event].rsvps[c].response \in {NO, MAYBE}
             /\ <<outbox[i].body.event, c>> \notin reminders_sent
             /\ reminder_calls[<<outbox[i].body.event, c>>] = 0

\* C4: every reminder send an iteration makes leaves its pair in the ledger,
\* whatever the send reported, and a pair in the ledger stays there and is
\* not sent again.
C4_LedgerMarkedWhateverOutcome ==
    [][ /\ \A i \in 1..Len(outbox') :
             IsReminder(outbox'[i]) =>
                <<outbox'[i].body.event, outbox'[i].to>> \in reminders_sent'
        /\ \A p \in reminders_sent :
             /\ p \in reminders_sent'
             /\ remindersFor(outbox', p) = 0
      ]_vars

\* a reminder send has failed and its pair is in the ledger
C4_Witness ==
    \E i \in 1..Len(outbox) :
        /\ IsReminder(outbox[i])
        /\ outbox[i].status = "error"
        /\ <<outbox[i].body.event, outbox[i].to>> \in reminders_sent

\* C5: an iteration that runs inside an event's reminder window evaluates
\* it: every contact whose RSVP is YES has been sent a reminder when the
\* iteration ends.
C5_TickInWindowReminds ==
    [][ Tick =>
          \A e \in DOMAIN events : \A c \in DOMAIN events[e].rsvps :
              (StartsInWindow(e) /\ events[e].rsvps[c].response = YES)
                  => <<e, c>> \in reminders_sent'
      ]_vars

\* C6: an event holds at most one RSVP per canonical contact (the store
\* starts empty, so it is enough to look where the store changes), and after a
\* successful record_rsvp it holds exactly one for the caller's contact,
\* with the response of that call.
C6_RsvpOverwrite ==
    [][ /\ events' # events =>
             \A e \in DOMAIN events' : \A k1, k2 \in DOMAIN events'[e].rsvps :
                normalize_phone(k1) = normalize_phone(k2) => k1 = k2
        /\ \A e \in EventIds, in \in RsvpRsvpInputs :
             (result' = "recorded" /\ RecordRsvp(e, in.phone, in.response)) =>
                LET same == {k \in DOMAIN events'[e].rsvps :
                                normalize_phone(k) = CanonicalOf[in.phone]}
                IN /\ Cardinality(same) = 1
                   /\ \A k \in same :
                        events'[e].rsvps[k].response = Trimmed[in.response]
      ]_vars

\* a contact who was reminded as a YES guest has answered again, under
\* another spelling of the phone, and the event holds the one record MAYBE
C6_Witness ==
    /\ result = "recorded"
    /\ \E e \in DOMAIN events :
         /\ DOMAIN events[e].rsvps = {Whatsapp1}
         /\ events[e].rsvps[Whatsapp1].response = MAYBE
         /\ <<e, Whatsapp1>> \in reminders_sent

\* C7, as claimed: record_rsvp with an event id that is not in the store
\* fails with NotFound for every contact and every response.
C7_Original ==
    [][ \A e \in EventIds, in \in RsvpInputs :
          (e \notin DOMAIN events /\ RecordRsvp(e, in.phone, in.response)) =>
              /\ result' = "McpError 404 Event not found"
              /\ outbox' = <<>>
              /\ UNCHANGED <<events, reminders_sent>>
      ]_vars

\* C7, amended: record_rsvp with an event id that is not in the store fails
\* with NotFound when the response is valid and with ValidationError when it
\* is not; either way the store and the ledger are unchanged and nothing is
\* sent.
C7_UnknownEventRejected ==
    [][ \A e \in EventIds, in \in RsvpInputs :
          (e \notin DOMAIN events /\ RecordRsvp(e, in.phone, in.response)) =>
              /\ result' = IF Trimmed[in.response] \in Canonical
                           THEN "McpError 404 Event not found"
                           ELSE "McpError 400 Invalid RSVP response"
              /\ outbox' = <<>>
              /\ UNCHANGED <<events, reminders_sent, reminder_calls>>
      ]_vars

\* record_rsvp has failed with NotFound while the store holds an event with
\* an RSVP and the ledger an entry
C7_Witness ==
    /\ result = "McpError 404 Event not found"
    /\ reminders_sent # {}
    /\ \E e \in DOMAIN events : DOMAIN events[e].rsvps # {}

\* C8: record_rsvp with a response that is not YES, NO or MAYBE after
\* trimming and upper-casing fails with ValidationError, changes no RSVP and
\* sends nothing; every stored response is one of YES, NO, MAYBE (looked at
\* wherever the store changes).
C8_ResponseValidation ==
    [][ /\ \A e \in EventIds, in \in RsvpInputs :
             (Trimmed[in.response] \notin Canonical
                /\ RecordRsvp(e, in.phone, in.response)) =>
                 /\ result' = "McpError 400 Invalid RSVP response"
                 /\ outbox' = <<>>
                 /\ UNCHANGED events
        /\ events' # events =>
             \A e \in DOMAIN events' : \A k \in DOMAIN events'[e].rsvps :
                events'[e].rsvps[k].response \in Canonical
      ]_vars

\* record_rsvp has failed with ValidationError while every event of the
\* store holds an RSVP
C8_Witness ==
    /\ result = "McpError 400 Invalid RSVP response"
    /\ DOMAIN events = EventIds
    /\ \A e \in DOMAIN events : DOMAIN events[e].rsvps # {}

\* C9: create_event with a datetime string that cannot be parsed fails with
\* the 400 error, adds no event and sends no invite.
C9_UnparsableDatetimeRejected ==
    [][ \A in \in CreateInputs :
          (/\ ~Parsable(in.datetime_str)
           /\ \E st \in [1..Len(in.attendees) -> Outcomes] : CreateEvent(in, st)) =>
              /\ result' = "McpError 400 Invalid datetime format"
              /\ outbox' = <<>>
              /\ UNCHANGED <<events, nextId>>
      ]_vars

\* create_event has failed on its datetime while the store holds an event
C9_Witness ==
    /\ result = "McpError 400 Invalid datetime format"
    /\ DOMAIN events # {}

\* C10: every event in the store has a non-empty title.
C10_NonEmptyTitles ==
    \A e \in DOMAIN events : events[e].title # ""

\* C11: event_details and rsvp_list called with an event id that is not in
\* the store return the not-found message as a normal result and change
\* neither the store nor the ledger, while record_rsvp raises the 404 error
\* for the same id.
C11_MissingEventQueries ==
    [][ \A e \in EventIds :
          e \notin DOMAIN events =>
            /\ (EventDetails(e) \/ RsvpList(e)) =>
                  /\ result' = "not found"
                  /\ reply' = NoReply
                  /\ outbox' = <<>>
                  /\ UNCHANGED <<events, reminders_sent, reminder_calls>>
            /\ RecordRsvp(e, Plus1, YES) =>
                  result' = "McpError 404 Event not found"
      ]_vars

\* a query has answered not found while the store holds an event with an
\* RSVP and the ledger an entry
C11_Witness ==
    /\ result = "not found"
    /\ reminders_sent # {}
    /\ \E e \in DOMAIN events : DOMAIN events[e].rsvps # {}

\* C12: create_event with a parsable datetime stores the event, makes
\* exactly one invite send per element of the attendee list, in order and
\* duplicates included, whatever the sends report, and returns without an
\* error.
C12_InvitesBestEffort ==
    [][ \A in \in CreateInputs :
          (/\ Parsable(in.datetime_str)
           /\ \E st \in [1..Len(in.attendees) -> Outcomes] : CreateEvent(in, st)) =>
              /\ result' = "created"
              /\ nextId \in DOMAIN events'
              /\ \A id \in DOMAIN events : id \in DOMAIN events'
              /\ Len(outbox') = Len(in.attendees)
              /\ \A i \in 1..Len(in.attendees) :
                    /\ outbox'[i].body = [kind |-> "invite", event |-> nextId]
                    /\ outbox'[i].to = normalize_phone(in.attendees[i])
      ]_vars

\* create_event has returned after two invites to the same number, the first
\* of which failed, and the event is in the store
C12_Witness ==
    /\ result = "created"
    /\ Len(outbox) = 2
    /\ outbox[1].to = outbox[2].to
    /\ outbox[1].status = "error"
    /\ outbox[1].body.event \in DOMAIN events

\* C13: an iteration in which the evaluation of one event faults still
\* reminds the YES guests of every other event in its window, and the task
\* goes on to its next sleep.
C13_FaultIsolation ==
    [][ Tick =>
          /\ \A e \in DOMAIN events : \A c \in DOMAIN events[e].rsvps :
                (/\ ~faulted(events[e])
                 /\ StartsInWindow(e)
                 /\ events[e].rsvps[c].response = YES)
                    => <<e, c>> \in reminders_sent'
          /\ started'
          /\ wakeAt' = clock + SleepMinutes
      ]_vars

\* an iteration has met an event that faults and then reminded the guest of
\* a later event
C13_Witness ==
    \E a, b \in DOMAIN events :
        /\ a < b
        /\ faulted(events[a])
        /\ \E i \in 1..Len(outbox) :
              IsReminder(outbox[i]) /\ outbox[i].body.event = b

\* C14: normalize_phone returns a value for every string, and applied to
\* what it returned it returns the same: normalize(normalize(x)) =
\* normalize(x).
C14_NormalizeIdempotent ==
    reply.kind = "phone" =>
        /\ normalize_phone(normalize_phone(reply.phone))
              = normalize_phone(reply.phone)
        /\ reply.calls > 0 => reply.value = normalize_phone(reply.phone)

\* a padded number without the prefix has been normalized twice
C14_Witness ==
    /\ reply.kind = "phone"
    /\ reply.calls = MaxCalls
    /\ reply.phone = Plus1Padded
    /\ reply.value = Whatsapp1

\* C15: list_events on a store that is not empty returns one line per
\* stored event, "Upcoming" when the clock is before the event's start and
\* "Past" when it is after it, and changes neither the store nor the ledger.
C15_ListEventsClassifies ==
    [][ (DOMAIN events # {} /\ ListEvents) =>
          /\ result' = "listed"
          /\ {reply'.lines[i].id : i \in 1..Len(reply'.lines)} = DOMAIN events
          /\ \A i \in 1..Len(reply'.lines) :
                LET e == reply'.lines[i].id IN
                /\ clock < StartOf(e) => reply'.lines[i].status = "Upcoming"
                /\ clock > StartOf(e) => reply'.lines[i].status = "Past"
          /\ UNCHANGED <<events, reminders_sent>>
      ]_vars

\* C16: in an iteration, every YES guest of an event in its window who is
\* not in the ledger is sent exactly one reminder and is put in the ledger,
\* whatever the sends to the other guests of the same event and of other
\* events report, a Twilio error included.
C16_ErrorDoesNotCutTick ==
    [][ Tick =>
          \A e \in DOMAIN events : \A c \in DOMAIN events[e].rsvps :
              (/\ ~faulted(events[e])
               /\ StartsInWindow(e)
               /\ events[e].rsvps[c].response = YES
               /\ <<e, c>> \notin reminders_sent)
                  => /\ remindersFor(outbox', <<e, c>>) = 1
                     /\ <<e, c>> \in reminders_sent'
      ]_vars

\* the first send of an iteration has failed; its pair is in the ledger,
\* and the iteration went on to the other guest of that event and to a guest
\* of another event
C16_Witness ==
    /\ Len(outbox) > 0
    /\ IsReminder(outbox[1])
    /\ outbox[1].status = "error"
    /\ <<outbox[1].body.event, outbox[1].to>> \in reminders_sent
    /\ \E i, j \in DOMAIN outbox :
          /\ i > 1
          /\ j > 1
          /\ outbox[i].body.event = outbox[1].body.event
          /\ outbox[j].body.event # outbox[1].body.event

\* an iteration of the reminder task runs in this step
Scans ==
    /\ started
    /\ clock = wakeAt
    /\ wakeAt' = clock + SleepMinutes

\* C17: a step that changes the store is the reset of main(), one whole
\* create_event, or one whole RSVP upsert: one event gets one complete record
\* under one canonical contact and nothing else changes, so two calls on
\* the same event leave the state of one of their serial orders; and the
\* store does not change in a step in which the reminder task scans it.
C17_AtomicUpserts ==
    [][ /\ events' # events =>
             \/ ~started /\ started' /\ events' = NoEvents
             \/ /\ nextId \notin DOMAIN events
                /\ DOMAIN events' = DOMAIN events \cup {nextId}
                /\ \A x \in DOMAIN events : events'[x] = events[x]
                /\ events'[nextId].rsvps = EmptyDict
             \/ \E e \in DOMAIN events, in \in RsvpInputs :
                   /\ Trimmed[in.response] \in Canonical
                   /\ DOMAIN events' = DOMAIN events
                   /\ \A x \in DOMAIN events \ {e} : events'[x] = events[x]
                   /\ events'[e] =
                        [events[e] EXCEPT !.rsvps =
                            dictSet(@, CanonicalOf[in.phone],
                                    [response |-> Trimmed[in.response]])]
        /\ Scans => events' = events
      ]_vars

\* between two answers of a contact to an event, an iteration of the task
\* has scanned the event and reminded the contact
C17_Witness ==
    /\ result = "recorded"
    /\ DOMAIN events = EventIds
    /\ \E e \in DOMAIN events : \E c \in DOMAIN events[e].rsvps :
          /\ events[e].rsvps[c].response = NO
          /\ <<e, c>> \in reminders_sent

\* C18: a step in which the reminder task runs, sends a reminder or changes
\* the ledger leaves the set of events and every event's fields and RSVPs as
\* they were; it changes only the ledger and the messages sent.
C18_SchedulerNeverWritesStore ==
    [][ (\/ Scans
         \/ reminders_sent' # reminders_sent
         \/ \E i \in 1..Len(outbox') : IsReminder(outbox'[i]))
            => /\ events' = events
               /\ UNCHANGED <<nextId, twilio_client, started, clock>>
      ]_vars

\* an iteration has reminded a guest, and the store holds the guest's event
\* with its RSVP
C18_Witness ==
    /\ JustTicked(clock)
    /\ \E i \in 1..Len(outbox) :
          /\ IsReminder(outbox[i])
          /\ outbox[i].body.event \in DOMAIN events
          /\ outbox[i].to \in DOMAIN events[outbox[i].body.event].rsvps

\* C19: a pair in the ledger stays in it, and only an iteration of the
\* reminder task changes the ledger: no handler and not main().
C19_LedgerOnlyGrows ==
    [][ /\ reminders_sent \subseteq reminders_sent'
        /\ reminders_sent' # reminders_sent => Scans
        /\ (\/ Main
            \/ ListEvents
            \/ \E e \in EventIds : EventDetails(e) \/ RsvpList(e)
            \/ result' \in {"created", "recorded"})
               => reminders_sent' = reminders_sent
      ]_vars

\* the ledger holds the pairs of two events, and a query has run since the
\* last iteration
C19_Witness ==
    /\ result \in {"listed", "details", "RSVP List", "not found"}
    /\ \E p, q \in reminders_sent : p[1] # q[1]

\* C20: the counts event_details reports are, for each of YES, NO and
\* MAYBE, the number of contacts whose RSVP stored for the event is that
\* response; they add up to the number of RSVPs of the event, which is the
\* number of lines rsvp_list reports.
C20_ConsistentCounts ==
    /\ result = "details" =>
          LET rsvps == events[reply.event].rsvps IN
          /\ \A r \in ValidResponses :
                reply.counts[r] =
                    Cardinality({k \in DOMAIN rsvps : rsvps[k].response = r})
          /\ reply.counts[YES] + reply.counts[NO] + reply.counts[MAYBE]
                = Cardinality(DOMAIN rsvps)
    /\ result = "RSVP List" =>
          LET rsvps == events[reply.event].rsvps IN
          /\ Len(reply.lines) = Cardinality(DOMAIN rsvps)
          /\ \A k \in DOMAIN rsvps :
                \E i \in 1..Len(reply.lines) :
                    reply.lines[i] = [phone |-> k, resp |-> rsvps[k].response]

\* event_details has counted one YES and one MAYBE on an event one of whose
\* two contacts changed the answer
C20_Witness ==
    /\ result = "details"
    /\ reply.counts[YES] = 1
    /\ reply.counts[MAYBE] = 1
    /\ reply.counts[NO] = 0

====
